---- MODULE Spec2Model ----
(***************************************************************************)
(* Tic-tac-toe: the state model (TicTacToeState), the outcome classifier   *)
(* (TicTacToeGame), the minimax scorer (score_state_rec) and the driver    *)
(* loop of src/tic_tac_toe.py.                                             *)
(***************************************************************************)
EXTENDS Integers, Sequences, FiniteSets, TLC

VARIABLES
    x_first,        \* TicTacToeGame.x_first
    strategy,       \* strategy.X is strategy_X, strategy.O is strategy_O
    current_state,  \* the driver's current_state (= game.current_state)
    move_to_make,   \* the driver's move_to_make
    pc,             \* position of the driver: "loop" or "done"
    last_call       \* the make_move call of the latest step, if it made one

vars == <<x_first, strategy, current_state, move_to_make, pc, last_call>>

----------------------------------------------------------------------------
(* Bound of the model *)

\* the moves offered to the program are the integers 0..MaxMove: the cells
\* 1..9 and the out-of-range values around them
MaxMove == 10

----------------------------------------------------------------------------
(* Data *)

Marks == {"X", "O"}

\* the value the initial dict holds for cell i is the integer i itself (the
\* label printed for an empty cell); it is kept here as its decimal numeral
CellLabel == <<"1", "2", "3", "4", "5", "6", "7", "8", "9">>

winning_combo == << <<1, 2, 3>>, <<4, 5, 6>>, <<7, 8, 9>>,
                    <<1, 4, 7>>, <<2, 5, 8>>, <<3, 6, 9>>,
                    <<1, 5, 9>>, <<3, 5, 7>> >>

\* move_to_make = '' : no move asked for yet (never a member of a list of cells)
NoMove == -1

\* TicTacToeState(cells_owned, cells_unowned, current_player)
TicTacToeState(cells_owned, cells_unowned, current_player) ==
    [cells_owned |-> cells_owned,
     cells_unowned |-> cells_unowned,
     current_player |-> current_player]

\* TicTacToeGame(x_first).current_state
InitialState(xf) ==
    TicTacToeState([i \in DOMAIN CellLabel |-> CellLabel[i]],
                   <<1, 2, 3, 4, 5, 6, 7, 8, 9>>,
                   IF xf THEN "X" ELSE "O")

----------------------------------------------------------------------------
(* TicTacToeGame *)

\* the scan without the two diagonals [1, 5, 9] and [3, 5, 7]
any_combo_no_diagonals(state, player) ==
    LET c == state.cells_owned
    IN  \/ c[1] = player /\ c[2] = player /\ c[3] = player
        \/ c[4] = player /\ c[5] = player /\ c[6] = player
        \/ c[7] = player /\ c[8] = player /\ c[9] = player
        \/ c[1] = player /\ c[4] = player /\ c[7] = player
        \/ c[2] = player /\ c[5] = player /\ c[8] = player
        \/ c[3] = player /\ c[6] = player /\ c[9] = player

\* the scan of winning_combo that is_over (lines 150-156) and is_winner (lines
\* 167-169) both make, with the 8 combos of the table written out: for some
\* combo, all three cells are among the cells whose cells_owned entry is
\* player.  OwnsLine below states the same over the table winning_combo, and
\* T3_EmptyMovesIffTerminal compares the two.
any_combo(state, player) ==
    LET c == state.cells_owned
    IN  \/ c[1] = player /\ c[2] = player /\ c[3] = player
        \/ c[4] = player /\ c[5] = player /\ c[6] = player
        \/ c[7] = player /\ c[8] = player /\ c[9] = player
        \/ c[1] = player /\ c[4] = player /\ c[7] = player
        \/ c[2] = player /\ c[5] = player /\ c[8] = player
        \/ c[3] = player /\ c[6] = player /\ c[9] = player
        \/ c[1] = player /\ c[5] = player /\ c[9] = player
        \/ c[3] = player /\ c[5] = player /\ c[7] = player

\* is_over without the test of lines 142-144 for a board with no cell left
is_over_lines_only(state) ==
    any_combo(state, "X") \/ any_combo(state, "O")

\* is_over scanning the combos for 'X' only
is_over_x_only(state) ==
    IF Len(state.cells_unowned) = 0
    THEN TRUE
    ELSE any_combo(state, "X")

is_over(state) ==
    IF Len(state.cells_unowned) = 0
    THEN TRUE
    ELSE any_combo(state, "X") \/ any_combo(state, "O")

is_winner(state, player) == any_combo(state, player)

\* extract_winner without its elif branch
extract_winner_o_only(state) ==
    IF is_winner(state, "O") THEN "O" ELSE "No one"

extract_winner(state) ==
    IF is_winner(state, "O") THEN "O"
    ELSE IF is_winner(state, "X") THEN "X"
    ELSE "No one"

----------------------------------------------------------------------------
(* TicTacToeState *)

\* get_possible_moves without the is_over check
get_possible_moves_unchecked(state) == state.cells_unowned

get_possible_moves(state) ==
    IF is_over(state) THEN <<>> ELSE state.cells_unowned

\* the members of a list
ListSet(list) == {list[i] : i \in DOMAIN list}

\* move in list
in_list(move, list) == \E i \in DOMAIN list : list[i] = move

\* is_valid_move that only tests that move is one of the cells 1..9
is_valid_move_in_range(state, move) == move \in 1..9

is_valid_move(state, move) == in_list(move, get_possible_moves(state))

\* copy_dict returning d itself (new_dict = d)
copy_dict_alias(d) == [dict |-> d, alias |-> TRUE]

\* copy_dict(d): a dict object holding the key/value pairs of d (dict), which
\* is a new object and not d itself (alias)
copy_dict(d) == [dict |-> d, alias |-> FALSE]

\* d[key] = value on a dict: replaces the value or adds the key
dict_store(d, key, value) ==
    IF key \in DOMAIN d
    THEN [d EXCEPT ![key] = value]
    ELSE [k \in DOMAIN d \cup {key} |-> IF k = key THEN value ELSE d[k]]

\* make_move that leaves the moved cell in cells_unowned
make_move_keeps_cell(self, move) ==
    LET stored == dict_store(self.cells_owned, move, self.current_player)
        new_player == IF self.current_player = "X" THEN "O" ELSE "X"
    IN  [ret |-> TicTacToeState(stored, self.cells_unowned, new_player),
         self |-> self,
         raised |-> FALSE]

\* make_move that passes the turn to 'X' whoever moved
make_move_same_player(self, move) ==
    LET new_cells_unowned ==
            SelectSeq(self.cells_unowned, LAMBDA cell : cell # move)
        stored == dict_store(self.cells_owned, move, self.current_player)
    IN  [ret |-> TicTacToeState(stored, new_cells_unowned, "X"),
         self |-> self,
         raised |-> FALSE]

\* make_move that refuses a move that is not valid
make_move_validating(self, move) ==
    LET new_cells_unowned ==
            SelectSeq(self.cells_unowned, LAMBDA cell : cell # move)
        stored == dict_store(self.cells_owned, move, self.current_player)
        new_player == IF self.current_player = "X" THEN "O" ELSE "X"
    IN  IF is_valid_move(self, move)
        THEN [ret |-> TicTacToeState(stored, new_cells_unowned, new_player),
              self |-> self,
              raised |-> FALSE]
        ELSE [ret |-> self, self |-> self, raised |-> TRUE]

\* self.make_move(move): the returned state (ret) and the receiver as it is
\* after the call (self); the store into new_cells_owned shows in the
\* receiver only if new_cells_owned is the receiver's own dict object.
\* No statement of make_move raises, whatever integer move is (raised).
make_move(self, move) ==
    LET new_cells_unowned ==
            SelectSeq(self.cells_unowned, LAMBDA cell : cell # move)
        new_cells_owned == copy_dict(self.cells_owned)
        stored == dict_store(new_cells_owned.dict, move, self.current_player)
        new_player == IF self.current_player = "X" THEN "O" ELSE "X"
    IN  [ret |-> TicTacToeState(stored, new_cells_unowned, new_player),
         self |-> IF new_cells_owned.alias
                  THEN [self EXCEPT !.cells_owned = stored]
                  ELSE self,
         raised |-> FALSE]

----------------------------------------------------------------------------
(* Minimax *)

RECURSIVE score_state_rec(_), max_scores(_, _, _)

\* min(scores) in the place of max(scores)
min2(a, b) == IF a <= b THEN a ELSE b

\* scores[0] in the place of max(scores)
first2(a, b) == a

\* sum(scores) in the place of max(scores)
sum2(a, b) == a + b

\* max(scores), taken two scores at a time
max2(a, b) == IF a >= b THEN a ELSE b

\* the for loop of score_state_rec from position i of next_moves on, and the
\* max of the scores it appends; state is the receiver as the calls before
\* left it
max_scores(state, next_moves, i) ==
    LET call == make_move(state, next_moves[i])
        score == -1 * score_state_rec(call.ret)
    IN  IF i = Len(next_moves)
        THEN score
        ELSE max2(score, max_scores(call.self, next_moves, i + 1))

score_state_rec(state) ==
    LET player == state.current_player
        opponent == IF player = "O" THEN "X" ELSE "O"
        next_moves == get_possible_moves(state)
    IN  IF next_moves = <<>>
        THEN LET winner == extract_winner(state)
             IN  IF winner = player THEN 1
                 ELSE IF winner = opponent THEN -1
                 ELSE 0
        ELSE max_scores(state, next_moves, 1)

RECURSIVE score_to_move_from(_, _, _, _)

\* score_to_move[key] = [move] for every move, whether the key is new or not
group_overwrite(score_to_move, key, move) ==
    dict_store(score_to_move, key, <<move>>)

\* lines 74-77: a new key gets the list [move], a known key has move appended
group_move(score_to_move, key, move) ==
    IF key \notin DOMAIN score_to_move
    THEN dict_store(score_to_move, key, <<move>>)
    ELSE [score_to_move EXCEPT ![key] = Append(@, move)]

\* the for loop of get_best_moves_rec from position i of moves on: the dict
\* score_to_move once every move is filed under its key. The code evaluates
\* -1 * score_state_rec(next_state) once in the test and once more in the
\* branch taken; score_state_rec has no effect on next_state, so the key is
\* evaluated once here.
score_to_move_from(state, moves, i, score_to_move) ==
    IF i > Len(moves)
    THEN score_to_move
    ELSE LET call == make_move(state, moves[i])
             key == -1 * score_state_rec(call.ret)
         IN  score_to_move_from(call.self, moves, i + 1,
                                group_move(score_to_move, key, moves[i]))

\* min(score_to_move) in the place of max(score_to_move)
dict_min(d) == CHOOSE k \in DOMAIN d : \A j \in DOMAIN d : k <= j

\* max(score_to_move): the largest key of the dict; of an empty dict it has
\* no value (ValueError in the code)
dict_max(d) == CHOOSE k \in DOMAIN d : \A j \in DOMAIN d : k >= j

\* the empty dict {}
EmptyDict == [k \in {} |-> <<>>]

get_best_moves_rec(state) ==
    LET moves == get_possible_moves(state)
        score_to_move == score_to_move_from(state, moves, 1, EmptyDict)
    IN  score_to_move[dict_max(score_to_move)]

----------------------------------------------------------------------------
(* Calls and specifications *)

NoCall == [made |-> FALSE]

\* the record kept of the call self.make_move(move)
Call(self, move) ==
    LET call == make_move(self, move)
    IN  [made |-> TRUE, recv |-> self, move |-> move,
         recv_after |-> call.self, ret |-> call.ret, raised |-> call.raised]

\* the keys of the dict strategy (line 242): 'i' is interactive_strategy, 'c'
\* is recursive_minimax
StrategyKeys == {"i", "c"}

\* game = TicTacToeGame(x_first); current_state = game.current_state; both
\* players are given interactive_strategy
Init ==
    /\ x_first \in BOOLEAN
    /\ strategy = [mark \in Marks |-> "i"]
    /\ current_state = InitialState(x_first)
    /\ move_to_make = NoMove
    /\ pc = "loop"
    /\ last_call = NoCall

\* a move for which is_valid_move is true is made on the current state
Move(m) ==
    /\ is_valid_move(current_state, m)
    /\ current_state' = make_move(current_state, m).ret
    /\ last_call' = Call(current_state, m)
    /\ UNCHANGED <<x_first, strategy, move_to_make, pc>>

Next == \E m \in 0..MaxMove : Move(m)

Spec == Init /\ [][Next]_vars

\* make_move is called on the current state with any integer, valid or not,
\* and its result inspected; the state of play is left as it is
Probe(m) ==
    /\ last_call' = Call(current_state, m)
    /\ UNCHANGED <<x_first, strategy, current_state, move_to_make, pc>>

\* a valid move of the play that brings the game to the states probed
Advance(m) ==
    /\ is_valid_move(current_state, m)
    /\ current_state' = make_move(current_state, m).ret
    /\ last_call' = NoCall
    /\ UNCHANGED <<x_first, strategy, move_to_make, pc>>

NextApi ==
    \/ \E m \in 0..MaxMove : Advance(m)
    \/ \E m \in 0..MaxMove : Probe(m)

SpecApi == Init /\ [][NextApi]_vars

\* The driver loop (lines 262-277).
\* line 273: the strategy of the player to move returns some integer
StrategyReturns(m) ==
    /\ pc = "loop"
    /\ strategy[current_state.current_player] = "i"
    /\ ~is_over(current_state)
    /\ ~is_valid_move(current_state, move_to_make)
    /\ move_to_make' = m
    /\ last_call' = NoCall
    /\ UNCHANGED <<x_first, strategy, current_state, pc>>

\* lines 275-277, then 262 and 267: the valid move is made, the loop goes on
ApplyMove ==
    /\ pc = "loop"
    /\ ~is_over(current_state)
    /\ is_valid_move(current_state, move_to_make)
    /\ current_state' = make_move(current_state, move_to_make).ret
    /\ last_call' = Call(current_state, move_to_make)
    /\ move_to_make' = NoMove
    /\ UNCHANGED <<x_first, strategy, pc>>

\* line 262 is false: the loop ends and the result is announced
GameOver ==
    /\ pc = "loop"
    /\ is_over(current_state)
    /\ pc' = "done"
    /\ last_call' = NoCall
    /\ UNCHANGED <<x_first, strategy, current_state, move_to_make>>

NextDriver ==
    \/ \E m \in 0..MaxMove : StrategyReturns(m)
    \/ ApplyMove
    \/ GameOver

SpecDriver == Init /\ [][NextDriver]_vars

\* the driver as line 232 on starts it: each of strategy_X and strategy_O is
\* one of the two strategies
InitGame ==
    /\ x_first \in BOOLEAN
    /\ strategy \in [Marks -> StrategyKeys]
    /\ current_state = InitialState(x_first)
    /\ move_to_make = NoMove
    /\ pc = "loop"
    /\ last_call = NoCall

\* line 273 when the strategy of the player to move is recursive_minimax:
\* it returns best_moves[random.randint(0, len(best_moves) - 1)]
MinimaxReturns ==
    /\ pc = "loop"
    /\ strategy[current_state.current_player] = "c"
    /\ ~is_over(current_state)
    /\ ~is_valid_move(current_state, move_to_make)
    /\ \E move \in ListSet(get_best_moves_rec(current_state)) :
           move_to_make' = move
    /\ last_call' = NoCall
    /\ UNCHANGED <<x_first, strategy, current_state, pc>>

NextGame ==
    \/ \E m \in 0..MaxMove : StrategyReturns(m)
    \/ MinimaxReturns
    \/ ApplyMove
    \/ GameOver

SpecGame == InitGame /\ [][NextGame]_vars

\* the states the scorer is applied to: those reached by valid moves
SearchMove(m) ==
    /\ is_valid_move(current_state, m)
    /\ current_state' = make_move(current_state, m).ret
    /\ UNCHANGED <<x_first, strategy, move_to_make, pc, last_call>>

NextSearch == \E m \in 0..MaxMove : SearchMove(m)

SpecSearch == Init /\ [][NextSearch]_vars

----------------------------------------------------------------------------
(* What the properties speak about *)

Cells == DOMAIN CellLabel

\* the cells whose cells_owned entry is 'X' or 'O'
OwnedCells(state) ==
    {cell \in DOMAIN state.cells_owned : state.cells_owned[cell] \in Marks}

Other(mark) == IF mark = "X" THEN "O" ELSE "X"

\* mark owns all three cells of one of the 8 winning lines
OwnsLine(state, mark) ==
    \E k \in DOMAIN winning_combo :
        \A j \in DOMAIN winning_combo[k] :
            state.cells_owned[winning_combo[k][j]] = mark

Won(state) == OwnsLine(state, "X") \/ OwnsLine(state, "O")

Terminal(state) == state.cells_unowned = <<>> \/ Won(state)

\* the call is one the claims call invalid: an owned cell, a cell outside
\* 1..9, or a terminal receiver
InvalidCall(call) ==
    \/ call.move \notin Cells
    \/ call.recv.cells_owned[call.move] \in Marks
    \/ Terminal(call.recv)

----------------------------------------------------------------------------
(* C1 *)

\* C1: in every state reached from the initial state by valid moves, the
\* cells of cells_unowned and the cells whose cells_owned entry is 'X' or 'O'
\* are disjoint and together are exactly the cells 1..9.
T1_OwnedUnownedPartition ==
    /\ OwnedCells(current_state) \cap ListSet(current_state.cells_unowned) = {}
    /\ OwnedCells(current_state) \cup ListSet(current_state.cells_unowned) = Cells

W1_FiveOwnedFourUnowned ==
    /\ Cardinality(OwnedCells(current_state)) = 5
    /\ Len(current_state.cells_unowned) = 4
    /\ last_call.made

(* C2 *)

\* C2 as stated: in every reachable state get_possible_moves() united with
\* the owned cells is all 9 cells, and the two are disjoint.
CE2_PossibleMovesAndOwnedAreAllCells ==
    /\ ListSet(get_possible_moves(current_state)) \cap OwnedCells(current_state) = {}
    /\ ListSet(get_possible_moves(current_state)) \cup OwnedCells(current_state) = Cells

\* C2 as amended: get_possible_moves() and the owned cells are disjoint in
\* every reachable state; they are together all 9 cells in every reachable
\* state where no mark owns a complete winning line; where some mark owns
\* one, get_possible_moves() is empty.
T2_PossibleMovesAndOwned ==
    /\ ListSet(get_possible_moves(current_state)) \cap OwnedCells(current_state) = {}
    /\ ~Won(current_state) =>
          ListSet(get_possible_moves(current_state)) \cup OwnedCells(current_state) = Cells
    /\ Won(current_state) => get_possible_moves(current_state) = <<>>

W2_WonWithCellsLeft ==
    /\ OwnsLine(current_state, "X")
    /\ current_state.cells_unowned # <<>>
    /\ get_possible_moves(current_state) = <<>>

(* C3 *)

\* C3: in every reachable state get_possible_moves() is empty if and only if
\* the state has no unowned cell or some mark owns all three cells of one of
\* the 8 winning lines, and is_over() is true exactly when
\* get_possible_moves() is empty.
T3_EmptyMovesIffTerminal ==
    /\ (get_possible_moves(current_state) = <<>>) <=> Terminal(current_state)
    /\ is_over(current_state) <=> (get_possible_moves(current_state) = <<>>)

W3_LineOfOEndsGame ==
    /\ OwnsLine(current_state, "O")
    /\ Len(current_state.cells_unowned) > 0
    /\ is_over(current_state)

(* C4 *)

\* C4: make_move(cell) on a state s with cell unowned and s not terminal
\* returns a state in which cell is owned by s.current_player, cell is not in
\* cells_unowned, and current_player is the other mark.
T4_MoveEffect ==
    (/\ last_call.made
     /\ last_call.move \in ListSet(last_call.recv.cells_unowned)
     /\ ~Terminal(last_call.recv))
    => /\ last_call.ret.cells_owned[last_call.move] = last_call.recv.current_player
       /\ last_call.move \notin ListSet(last_call.ret.cells_unowned)
       /\ last_call.ret.current_player = Other(last_call.recv.current_player)

W4_OTakesCentre ==
    /\ last_call.made
    /\ last_call.move = 5
    /\ last_call.recv.current_player = "O"
    /\ ~Terminal(last_call.recv)
    /\ current_state = last_call.ret

(* C5 *)

\* C5: make_move does not mutate its receiver: after the call the receiver's
\* cells_owned, cells_unowned and current_player are what they were; in the
\* returned state every cell but the moved one has the owner it has in the
\* receiver; and a second call with the same cell on the receiver returns a
\* state equal to the first.
T5_ReceiverUnchanged ==
    last_call.made
    => /\ last_call.recv_after.cells_owned = last_call.recv.cells_owned
       /\ last_call.recv_after.cells_unowned = last_call.recv.cells_unowned
       /\ last_call.recv_after.current_player = last_call.recv.current_player
       /\ \A cell \in DOMAIN last_call.recv.cells_owned \ {last_call.move} :
              last_call.ret.cells_owned[cell] = last_call.recv.cells_owned[cell]
       /\ make_move(last_call.recv_after, last_call.move).ret = last_call.ret

W5_CallOnPlayedBoard ==
    /\ last_call.made
    /\ Cardinality(OwnedCells(last_call.recv)) = 3
    /\ last_call.move \in ListSet(last_call.recv.cells_unowned)
    /\ last_call.ret # last_call.recv

(* C6 *)

\* C6 as stated: make_move invoked with a cell that is already owned, with a
\* cell outside 1..9, or on a terminal state produces an error to the caller
\* and no successor state.
CE6_InvalidMoveRaises ==
    (last_call.made /\ InvalidCall(last_call)) => last_call.raised

\* C6 as amended: make_move validates nothing: invoked with a cell that is
\* already owned, with a cell outside 1..9, or on a terminal state, it raises
\* no error and returns a successor state in which the cell's entry is the
\* receiver's current_player, cells_unowned is the receiver's without the
\* cell, and the turn has passed to the other mark; is_valid_move is false
\* for every such call.
T6_InvalidMoveNotRejected ==
    (last_call.made /\ InvalidCall(last_call))
    => /\ ~last_call.raised
       /\ last_call.ret.cells_owned[last_call.move] = last_call.recv.current_player
       /\ last_call.ret.cells_unowned =
              SelectSeq(last_call.recv.cells_unowned,
                        LAMBDA cell : cell # last_call.move)
       /\ last_call.ret.current_player = Other(last_call.recv.current_player)
       /\ ~is_valid_move(last_call.recv, last_call.move)

W6_OutOfRangeKeyAdded ==
    /\ last_call.made
    /\ last_call.move \notin Cells
    /\ last_call.move \in DOMAIN last_call.ret.cells_owned
    /\ ~last_call.raised

----------------------------------------------------------------------------
(* C7 - C10: the scorer *)

\* the scores of the successors of state: score_state_rec of make_move(m) for
\* every m of get_possible_moves()
ChildScores(state) ==
    {score_state_rec(make_move(state, m).ret) :
         m \in ListSet(get_possible_moves(state))}

SetMax(S) == CHOOSE x \in S : \A y \in S : y <= x

SetMin(S) == CHOOSE x \in S : \A y \in S : x <= y

(* C7 *)

\* C7: score_state_rec(s) is -1, 0 or 1 for every reachable state s.
T7_ScoreRange == score_state_rec(current_state) \in {-1, 0, 1}

W7_WinningPosition ==
    /\ Len(current_state.cells_unowned) = 4
    /\ ~Terminal(current_state)
    /\ score_state_rec(current_state) = 1

(* C8 *)

\* C8 as stated: for every reachable non-terminal state s, score_state_rec(s)
\* is -1 * max(score_state_rec(child) for child in the successors of s).
CE8_ScoreIsMinusMaxOfChildren ==
    ~Terminal(current_state)
    => score_state_rec(current_state) = -1 * SetMax(ChildScores(current_state))

\* C8 as amended: for every reachable non-terminal state s, score_state_rec(s)
\* is -1 * min(score_state_rec(child) for child in the successors of s).
T8_ScoreIsMinusMinOfChildren ==
    ~Terminal(current_state)
    => score_state_rec(current_state) = -1 * SetMin(ChildScores(current_state))

W8_ChildrenScoreDifferently ==
    /\ Len(current_state.cells_unowned) = 4
    /\ ~Terminal(current_state)
    /\ ChildScores(current_state) = {-1, 0, 1}
    /\ score_state_rec(current_state) = 1

(* C9 *)

\* C9: for every reachable non-terminal state s, score_state_rec(s) is the
\* maximum over the legal moves m of the negated score of make_move(m); at a
\* terminal state it is +1 if the winner is the state's current_player, -1 if
\* the winner is the opponent, and 0 for a tie.
T9_Negamax ==
    IF Terminal(current_state)
    THEN score_state_rec(current_state) =
             IF OwnsLine(current_state, current_state.current_player) THEN 1
             ELSE IF OwnsLine(current_state, Other(current_state.current_player))
                  THEN -1
                  ELSE 0
    ELSE score_state_rec(current_state) =
             SetMax({-1 * c : c \in ChildScores(current_state)})

W9_LostTerminalState ==
    /\ Terminal(current_state)
    /\ OwnsLine(current_state, Other(current_state.current_player))
    /\ score_state_rec(current_state) = -1

(* C10 *)

\* C10: from the empty board score_state_rec(initial_state) is 0, whether 'X'
\* or 'O' is the designated first player.
T10_InitialScoreIsZero ==
    current_state \in {InitialState(TRUE), InitialState(FALSE)}
    => score_state_rec(current_state) = 0

W10_OFirstScoresZero ==
    /\ ~x_first
    /\ current_state = InitialState(x_first)
    /\ current_state.current_player = "O"
    /\ score_state_rec(current_state) = 0

----------------------------------------------------------------------------
(* C11 - C12: the best moves *)

\* the negated child score of every move of get_possible_moves()
NegatedChildScore(state) ==
    [m \in ListSet(get_possible_moves(state)) |->
         -1 * score_state_rec(make_move(state, m).ret)]

(* C11 *)

\* C11: for every reachable non-terminal state s, get_best_moves_rec(s) is
\* exactly the legal moves whose negated child score is the maximum over all
\* legal moves: it is non-empty, holds only cells for which is_valid_move is
\* true, holds every maximising move, and every move it holds has negated
\* child score score_state_rec(s).
T11_BestMovesAreTheMaximisers ==
    ~Terminal(current_state) =>
        LET best == get_best_moves_rec(current_state)
            neg == NegatedChildScore(current_state)
            top == SetMax({neg[m] : m \in DOMAIN neg})
            score == score_state_rec(current_state)
        IN  /\ best # <<>>
            /\ \A i \in DOMAIN best : is_valid_move(current_state, best[i])
            /\ ListSet(best) = {m \in DOMAIN neg : neg[m] = top}
            /\ \A i \in DOMAIN best : neg[best[i]] = score

W11_SomeMovesAreNotBest ==
    /\ Len(current_state.cells_unowned) = 8
    /\ ~Terminal(current_state)
    /\ LET best == get_best_moves_rec(current_state)
       IN  /\ best # <<>>
           /\ Len(best) < Len(get_possible_moves(current_state))

(* C12 *)

\* the scenario state: A owns cells 1 and 2, B owns cells 4 and 5, the cells
\* 3, 6, 7, 8, 9 are unowned and A is to move
ScenarioTopRow(A) ==
    TicTacToeState([InitialState(TRUE).cells_owned EXCEPT
                        ![1] = A, ![2] = A, ![4] = Other(A), ![5] = Other(A)],
                   <<3, 6, 7, 8, 9>>,
                   A)

\* C12 as stated: in the scenario state get_best_moves_rec includes cell 3,
\* and score_state_rec after applying move 3 equals 1.
CE12_ScoreAfterWinningMoveIsOne ==
    \A A \in Marks :
        current_state = ScenarioTopRow(A) =>
            /\ in_list(3, get_best_moves_rec(current_state))
            /\ score_state_rec(make_move(current_state, 3).ret) = 1

\* C12 as amended: in the scenario state get_best_moves_rec includes cell 3
\* (it is the list [3]); score_state_rec of the state after applying move 3,
\* in which B is to move and A owns the top row, equals -1; its negation, the
\* key move 3 is filed under, equals 1, and so does score_state_rec of the
\* scenario state.
T12_WinningMoveScoresMinusOneForOpponent ==
    \A A \in Marks :
        current_state = ScenarioTopRow(A) =>
            /\ in_list(3, get_best_moves_rec(current_state))
            /\ get_best_moves_rec(current_state) = <<3>>
            /\ make_move(current_state, 3).ret.current_player = Other(A)
            /\ score_state_rec(make_move(current_state, 3).ret) = -1
            /\ -1 * score_state_rec(make_move(current_state, 3).ret) = 1
            /\ score_state_rec(current_state) = 1

W12_ScenarioReachedWithOFirst ==
    /\ ~x_first
    /\ current_state = ScenarioTopRow("O")
    /\ last_call.made
    /\ in_list(3, get_best_moves_rec(current_state))

----------------------------------------------------------------------------
(* C13 - C15: the outcome of a state *)

\* the two tests of extract_winner in the other order, 'X' first and then
\* 'O', which is the order the driver announces the result in
ExtractWinnerXFirst(state) ==
    IF is_winner(state, "X") THEN "X"
    ELSE IF is_winner(state, "O") THEN "O"
    ELSE "No one"

(* C13 *)

\* C13: in every reachable state at most one of the two marks owns all three
\* cells of some winning line, so extract_winner returns the same result
\* whether it tests 'O' before 'X' or 'X' before 'O': 'X' iff X owns a
\* complete line, 'O' iff O owns a complete line, 'No one' otherwise.
T13_AtMostOneWinner ==
    /\ ~(OwnsLine(current_state, "X") /\ OwnsLine(current_state, "O"))
    /\ extract_winner(current_state) = ExtractWinnerXFirst(current_state)
    /\ extract_winner(current_state) = "X" <=> OwnsLine(current_state, "X")
    /\ extract_winner(current_state) = "O" <=> OwnsLine(current_state, "O")
    /\ extract_winner(current_state) = "No one" <=> ~Won(current_state)

W13_XWinsOnTheLastCell ==
    /\ current_state.cells_unowned = <<>>
    /\ OwnsLine(current_state, "X")
    /\ extract_winner(current_state) = "X"
    /\ last_call.made

(* C14 *)

\* what C14 says of one state and one mark
WinsWithLine(state, mark) ==
    OwnsLine(state, mark) =>
        /\ is_winner(state, mark)
        /\ is_over(state)
        /\ get_possible_moves(state) = <<>>

\* C14: for any state in which one mark owns all three cells of a winning
\* line, is_winner for that mark is true whoever owns the other cells,
\* is_over is true even when unowned cells remain, and get_possible_moves()
\* is empty.  It is stated of the current state and of the state a make_move
\* call returned, which for an invalid move is a board no play reaches.
T14_LineOwnerWins ==
    \A mark \in Marks :
        /\ WinsWithLine(current_state, mark)
        /\ last_call.made => WinsWithLine(last_call.ret, mark)

W14_DiagonalWithCellsLeft ==
    /\ \A cell \in {1, 5, 9} : current_state.cells_owned[cell] = "X"
    /\ Len(current_state.cells_unowned) = 4
    /\ is_winner(current_state, "X")
    /\ is_over(current_state)
    /\ get_possible_moves(current_state) = <<>>
    /\ last_call.made
    /\ OwnsLine(last_call.ret, "O")
    /\ Len(last_call.ret.cells_unowned) = 4

(* C15 *)

\* C15: for every full board (no unowned cells) on which neither mark owns a
\* complete winning line, extract_winner returns the tie value 'No one',
\* get_possible_moves() is empty, is_over is true, and score_state_rec is 0.
T15_FullBoardWithoutLineIsATie ==
    (current_state.cells_unowned = <<>> /\ ~Won(current_state)) =>
        /\ extract_winner(current_state) = "No one"
        /\ get_possible_moves(current_state) = <<>>
        /\ is_over(current_state)
        /\ score_state_rec(current_state) = 0

W15_TiedFullBoard ==
    /\ current_state.cells_unowned = <<>>
    /\ Cardinality(OwnedCells(current_state)) = 9
    /\ ~Won(current_state)
    /\ last_call.made
    /\ extract_winner(current_state) = "No one"
    /\ score_state_rec(current_state) = 0

----------------------------------------------------------------------------
(* C16: termination *)

RECURSIVE DescendsBeyond(_, _)

\* the recursion of score_state_rec started on state descends more than
\* levels levels: some chain of its recursive calls (lines 111-112, one call
\* on make_move(m) for every m of get_possible_moves()) is longer than levels
DescendsBeyond(state, levels) ==
    \E i \in DOMAIN get_possible_moves(state) :
        \/ levels = 0
        \/ DescendsBeyond(make_move(state, get_possible_moves(state)[i]).ret,
                          levels - 1)

\* the number of moves made so far: every valid move marks one more cell
MovesMade(state) == Cardinality(OwnedCells(state))

\* C16: every play terminates: from the initial state, any sequence of valid
\* moves reaches a terminal state (get_possible_moves() empty) after at most
\* 9 moves, and the recursion of score_state_rec from any reachable state s
\* descends at most as many levels as s has unowned cells.  Every move takes
\* one cell from cells_unowned and is one more move made; the moves made and
\* the cells left are 9 together, and with no cell left no move is possible.
T16_PlayAndRecursionTerminate ==
    /\ [][/\ Len(current_state'.cells_unowned) =
                 Len(current_state.cells_unowned) - 1
          /\ MovesMade(current_state') = MovesMade(current_state) + 1]_vars
    /\ [](MovesMade(current_state) + Len(current_state.cells_unowned) = 9)
    /\ [](Len(current_state.cells_unowned) = 0
             => get_possible_moves(current_state) = <<>>)
    /\ [](~DescendsBeyond(current_state, Len(current_state.cells_unowned)))

W16_NineMovesMade ==
    /\ MovesMade(current_state) = 9
    /\ current_state.cells_unowned = <<>>
    /\ get_possible_moves(current_state) = <<>>
    /\ last_call.made
    /\ ~DescendsBeyond(last_call.recv, 1)
    /\ DescendsBeyond(last_call.recv, 0)

----------------------------------------------------------------------------
(* C17: the driver loop *)

\* what the strategies are let to return: the integers 0..MaxMove, and the
\* value move_to_make has before any is asked for
Returned == (0..MaxMove) \cup {NoMove}

\* C17: the driver loop applies a move only after is_valid_move returned true
\* for it in the current state: whatever cells the strategies return, every
\* make_move the driver performs is on an unowned cell of a non-terminal
\* state, the driver's state stays unchanged while the strategy returns
\* invalid moves, and is_valid_move(cell) is true iff cell appears in
\* get_possible_moves().
T17_DriverAppliesValidMovesOnly ==
    /\ [][current_state' # current_state =>
              /\ is_valid_move(current_state, move_to_make)
              /\ current_state' = make_move(current_state, move_to_make).ret
              /\ last_call'.made
              /\ last_call'.recv = current_state
              /\ last_call'.move = move_to_make]_vars
    /\ [](last_call.made =>
              /\ in_list(last_call.move, last_call.recv.cells_unowned)
              /\ last_call.recv.cells_owned[last_call.move] \notin Marks
              /\ ~Terminal(last_call.recv))
    /\ [][~is_valid_move(current_state, move_to_make)
              => current_state' = current_state]_vars
    /\ [](\A cell \in Returned :
              is_valid_move(current_state, cell)
                  <=> cell \in ListSet(get_possible_moves(current_state)))

W17_OwnedCellReturned ==
    /\ pc = "loop"
    /\ MovesMade(current_state) = 3
    /\ ~is_over(current_state)
    /\ move_to_make \in OwnedCells(current_state)
    /\ ~is_valid_move(current_state, move_to_make)

----------------------------------------------------------------------------
(* C18: play from get_best_moves_rec *)

\* C18: a player whose every move is taken from get_best_moves_rec of the
\* current state never loses: in every game from the empty board in which one
\* player always plays a move from get_best_moves_rec and the other plays any
\* valid moves, the terminal state reached is never a win for the other
\* player; when both play from get_best_moves_rec the game ends in a tie.
T18_MinimaxPlayerNeverLoses ==
    /\ \A mark \in Marks :
           strategy[mark] = "c" => ~OwnsLine(current_state, Other(mark))
    /\ (\A mark \in Marks : strategy[mark] = "c") =>
           /\ ~Won(current_state)
           /\ pc = "done" =>
                  /\ current_state.cells_unowned = <<>>
                  /\ extract_winner(current_state) = "No one"

W18_MinimaxWinsAsSecondPlayer ==
    /\ pc = "done"
    /\ x_first
    /\ strategy = [mark \in Marks |-> IF mark = "O" THEN "c" ELSE "i"]
    /\ OwnsLine(current_state, "O")

----------------------------------------------------------------------------
(* C19 - C20: whose turn it is *)

(* C19 *)

\* C19: in every reachable terminal state that has a winner, the winner is
\* the player who made the last move, never the state's current_player;
\* hence score_state_rec of a reachable terminal state is -1 or 0 and never
\* +1.
T19_WinnerMadeTheLastMove ==
    Terminal(current_state) =>
        /\ Won(current_state) =>
               /\ last_call.made
               /\ last_call.ret = current_state
               /\ OwnsLine(current_state, last_call.recv.current_player)
               /\ current_state.cells_owned[last_call.move] =
                      last_call.recv.current_player
               /\ extract_winner(current_state) = last_call.recv.current_player
               /\ extract_winner(current_state) # current_state.current_player
               /\ ~OwnsLine(current_state, current_state.current_player)
        /\ score_state_rec(current_state) \in {-1, 0}
        /\ score_state_rec(current_state) # 1

W19_OWinsByTakingTheCentre ==
    /\ Terminal(current_state)
    /\ last_call.made
    /\ last_call.move = 5
    /\ last_call.recv.current_player = "O"
    /\ extract_winner(current_state) = "O"
    /\ current_state.current_player = "X"
    /\ score_state_rec(current_state) = -1

(* C20 *)

\* the designated first player: 'X' if x_first, else 'O' (line 130)
FirstPlayer == IF x_first THEN "X" ELSE "O"

\* the number of cells mark owns
CellsOf(state, mark) ==
    Cardinality({cell \in Cells : state.cells_owned[cell] = mark})

\* C20: turns alternate strictly: in every reachable state the number of
\* cells owned by the designated first player minus the number owned by the
\* other player is 0 when current_player is the first player and 1 when
\* current_player is the other player.
T20_TurnsAlternate ==
    LET lead == CellsOf(current_state, FirstPlayer)
                    - CellsOf(current_state, Other(FirstPlayer))
    IN  /\ current_state.current_player = FirstPlayer => lead = 0
        /\ current_state.current_player = Other(FirstPlayer) => lead = 1

W20_FirstPlayerLeadsAfterFiveMoves ==
    /\ MovesMade(current_state) = 5
    /\ CellsOf(current_state, FirstPlayer) = 3
    /\ CellsOf(current_state, Other(FirstPlayer)) = 2
    /\ current_state.current_player = Other(FirstPlayer)
    /\ last_call.made

====
